---- MODULE Spec2Model ----
(***************************************************************************)
(* Model of the doc_assistant AI services fragment:                        *)
(*   - ai_services/voice_transcription/app.py: start-up (load_dotenv, port *)
(*     resolution, app.run) and the two static Flask routes;               *)
(*   - ai_services/pre_diagnosis_summary: the emptied legacy module and    *)
(*     the unit test module that still imports a class from it.            *)
(* Texts are sequences of code points so that int() can be modelled        *)
(* character by character.                                                 *)
(***************************************************************************)
EXTENDS Integers, Sequences, FiniteSets

VARIABLES environ, dotenv, os_environ, pc, port, listener, inflight, log, test

vars == <<environ, dotenv, os_environ, pc, port, listener, inflight, log, test>>

srvVars == <<environ, dotenv, os_environ, pc, port, listener, inflight, log>>

(* ------------------------------ bounds --------------------------------- *)

\* longest generated PORT text (curated longer texts are added explicitly)
MaxTextLen == 2

\* number of requests a run accepts before the model stops feeding it
MaxRequests == 2

\* the processes (runs of app.py) the model can start
Runs == {1, 2}

(* ------------------------------ texts ---------------------------------- *)

\* A text is a sequence of Unicode code points: "8080" is <<56, 48, 56, 48>>.

\* the code points of the ten-digit runs of category Nd (Unicode 14.0.0, the
\* table of CPython 3.11): each run is zero..zero+9 in order of value
DigitZeros ==
    { 48, 1632, 1776, 1984, 2406, 2534, 2662, 2790, 2918, 3046, 3174, 3302,
      3430, 3558, 3664, 3792, 3872, 4160, 4240, 6112, 6160, 6470, 6608, 6784,
      6800, 6992, 7088, 7232, 7248, 42528, 43216, 43264, 43472, 43504, 43600,
      44016, 65296, 66720, 68912, 69734, 69872, 69942, 70096, 70384, 70736,
      70864, 71248, 71360, 71472, 71904, 72016, 72784, 73040, 73120, 92768,
      92864, 93008, 120782, 120792, 120802, 120812, 120822, 123200, 123632,
      125264, 130032 }

\* every Unicode decimal digit: int() accepts them all
Digits == UNION {z..(z + 9) : z \in DigitZeros}

\* the white space int() strips: tab, LF, VT, FF, CR, blank, NEL, NBSP and
\* the Unicode space separators (the separators 28..31 are not stripped)
Whitespace ==
    (9..13) \cup {32, 133, 160, 5760} \cup (8192..8202)
        \cup {8232, 8233, 8239, 8287, 12288}

Minus == 45

Plus == 43

Underscore == 95

\* characters the generated PORT texts are built from:
\* 0 8 blank - + _ . x tab and ARABIC-INDIC DIGIT EIGHT
Alphabet == {48, 56, 32, Minus, Plus, Underscore, 46, 120, 9, 1640}

RECURSIVE TextsOfLen(_)
TextsOfLen(n) ==
    IF n = 0 THEN {<<>>}
    ELSE {Append(t, c) : t \in TextsOfLen(n - 1), c \in Alphabet}

GeneratedTexts == UNION {TextsOfLen(n) : n \in 0..MaxTextLen}

\* sys.get_int_max_str_digits(): the most digits int() converts
MaxStrDigits == 4300

\* 4300 zeros followed by 8: one digit more than int() converts
OverlongText == [i \in 1..(MaxStrDigits + 1) |->
                    IF i = MaxStrDigits + 1 THEN 56 ELSE 48]

CuratedTexts ==
    { <<56, 48, 56, 48>>,                   \* 8080
      <<57, 48, 48, 49>>,                   \* 9001
      <<54, 53, 53, 51, 53>>,               \* 65535
      <<54, 53, 53, 51, 54>>,               \* 65536
      <<32, 56, 48, 56, 48, 32>>,           \* 8080 between blanks
      <<9, 56, 48, 56, 48>>,                \* tab 8080
      <<56, 48, 56, 48, 10>>,               \* 8080 newline
      <<160, 56, 48, 56, 48>>,              \* NBSP 8080
      <<28, 56, 48, 56, 48>>,               \* FILE SEPARATOR 8080
      <<65304, 65296, 65304, 65296>>,       \* fullwidth 8080
      <<1640, 1632>>,                       \* ARABIC-INDIC 80
      <<56, 95, 48, 56, 48>>,               \* 8_080
      <<56, 48, 46, 48>>,                   \* 80.0
      <<45, 56, 48>>,                       \* -80
      OverlongText }

PortTexts == GeneratedTexts \cup CuratedTexts

Unset == [set |-> FALSE]

SetTo(t) == [set |-> TRUE, text |-> t]

\* values PORT can have in the environment the process is started with
EnvValues == {Unset} \cup {SetTo(t) : t \in PortTexts}

\* values PORT can have in the .env file load_dotenv finds (Unset: no file,
\* or a file without a PORT binding): 8080, the empty text, x
DotenvValues ==
    {Unset, SetTo(<<56, 48, 56, 48>>), SetTo(<<>>), SetTo(<<120>>)}

(* --------------------------- Python int() ------------------------------ *)

\* the value of a decimal digit is its offset in its run
DigitVal(c) == c - (CHOOSE z \in DigitZeros : c \in z..(z + 9))

RECURSIVE LStrip(_)
LStrip(s) ==
    IF s # <<>> /\ Head(s) \in Whitespace THEN LStrip(Tail(s)) ELSE s

RECURSIVE RStrip(_)
RStrip(s) ==
    IF s # <<>> /\ s[Len(s)] \in Whitespace
    THEN RStrip(SubSeq(s, 1, Len(s) - 1))
    ELSE s

Strip(s) == RStrip(LStrip(s))

\* digits, with single underscores allowed between two digits
WellFormedDigits(s) ==
    /\ s # <<>>
    /\ \A i \in 1..Len(s) : s[i] \in Digits \cup {Underscore}
    /\ s[1] \in Digits
    /\ s[Len(s)] \in Digits
    /\ \A i \in 1..(Len(s) - 1) : ~(s[i] = Underscore /\ s[i + 1] = Underscore)

RECURSIVE DigitsValue(_, _)
DigitsValue(s, acc) ==
    IF s = <<>> THEN acc
    ELSE IF Head(s) = Underscore THEN DigitsValue(Tail(s), acc)
    ELSE DigitsValue(Tail(s), 10 * acc + DigitVal(Head(s)))

ValueError == [ok |-> FALSE]

IntOk(n) == [ok |-> TRUE, val |-> n]

\* the digits of a text, leading zeros included, underscores not
DigitCount(s) == Cardinality({i \in 1..Len(s) : s[i] \in Digits})

\* int(text) in base 10; a text of more than MaxStrDigits digits is refused
int_str(s) ==
    LET t    == Strip(s)
        neg  == t # <<>> /\ Head(t) = Minus
        sgn  == t # <<>> /\ Head(t) \in {Minus, Plus}
        body == IF sgn THEN Tail(t) ELSE t
    IN  IF WellFormedDigits(body) /\ DigitCount(body) <= MaxStrDigits
        THEN IntOk(IF neg THEN 0 - DigitsValue(body, 0) ELSE DigitsValue(body, 0))
        ELSE ValueError

DefaultPort == 9001

\* variant: the default is Flask's own 5000
environ_get_PORT_flask_default(env) ==
    IF env.set THEN [kind |-> "str", text |-> env.text]
    ELSE [kind |-> "int", val |-> 5000]

\* os.environ.get('PORT', 9001): the text when set, the int default otherwise
environ_get_PORT(env) ==
    IF env.set THEN [kind |-> "str", text |-> env.text]
    ELSE [kind |-> "int", val |-> DefaultPort]

\* variant: text that does not parse falls back to the default
py_int_fallback(v) ==
    IF v.kind = "int" THEN IntOk(v.val)
    ELSE IF int_str(v.text).ok THEN int_str(v.text)
    ELSE IntOk(DefaultPort)

\* int(v) for a str or an int argument
py_int(v) ==
    IF v.kind = "int" THEN IntOk(v.val) ELSE int_str(v.text)

\* port = int(os.environ.get('PORT', 9001))
resolve_port(env) == py_int(environ_get_PORT(env))

(* ------------------------------ start-up ------------------------------- *)

NoPort == [ok |-> FALSE]

NoListener == [bound |-> FALSE]

Host == "0.0.0.0"

\* a listening socket: ports is the set its port number lies in, one port
\* when the caller named it, a range when the kernel chose it
Bound(h, ps) == [bound |-> TRUE, host |-> h, ports |-> ps]

\* the non-zero port numbers a TCP socket accepts
TcpPorts == 1..65535

\* ports the kernel may hand out when asked to bind port 0 (the default
\* net.ipv4.ip_local_port_range)
EphemeralPorts == 32768..60999

\* variant: override=True, the .env file wins over the environment
load_dotenv_override(env, file) ==
    IF file.set THEN file ELSE env

\* load_dotenv() with override=False: a binding of the .env file is copied
\* into os.environ only when the variable is not already set there
load_dotenv(env, file) ==
    IF ~env.set /\ file.set THEN file ELSE env

\* line 11: module import runs load_dotenv(); lines 13-30 build the app.
\* environ is the environment the process was started with, os_environ the
\* interpreter's own mapping, which starts as a copy of it
LoadDotenv(r) ==
    /\ pc[r] = "start"
    /\ os_environ' = [os_environ EXCEPT
                        ![r] = load_dotenv(os_environ[r], dotenv[r])]
    /\ pc' = [pc EXCEPT ![r] = "loaded"]
    /\ UNCHANGED <<environ, dotenv, port, listener, inflight, log, test>>

\* line 33: an uncaught ValueError ends the process before app.run
ResolvePort(r) ==
    /\ pc[r] = "loaded"
    /\ LET p == resolve_port(os_environ[r])
       IN  IF p.ok
           THEN /\ port' = [port EXCEPT ![r] = p]
                /\ pc' = [pc EXCEPT ![r] = "resolved"]
           ELSE /\ port' = port
                /\ pc' = [pc EXCEPT ![r] = "error"]
    /\ UNCHANGED <<environ, dotenv, os_environ, listener, inflight, log, test>>

\* the sockets a bind of (host, p) can produce: on some port of the kernel's
\* choosing for 0, on p itself for a port number, none when the socket layer
\* rejects the number
BindTargets(p) ==
    IF p = 0 THEN {Bound(Host, EphemeralPorts)}
    ELSE IF p \in TcpPorts THEN {Bound(Host, {p})}
    ELSE {}

\* line 34: app.run(host='0.0.0.0', port=port, debug=True); the bind either
\* succeeds on one of the targets or fails (port rejected, address in use)
AppRun(r) ==
    /\ pc[r] = "resolved"
    /\ \/ \E l \in BindTargets(port[r].val) :
             /\ listener' = [listener EXCEPT ![r] = l]
             /\ pc' = [pc EXCEPT ![r] = "serving"]
       \/ /\ listener' = listener
          /\ pc' = [pc EXCEPT ![r] = "error"]
    /\ UNCHANGED <<environ, dotenv, os_environ, port, inflight, log, test>>

(* ------------------------------- routes -------------------------------- *)

\* the requests clients send: both routes, a method no rule lists and a
\* path no rule matches
Requests ==
    { [method |-> "GET",  path |-> "/health"],
      [method |-> "GET",  path |-> "/"],
      [method |-> "POST", path |-> "/health"],
      [method |-> "GET",  path |-> "/transcribe"] }

\* variant: the status depends on how many requests are in flight
jsonify_busy(doc) ==
    [status |-> IF \E r \in Runs : Cardinality(inflight[r]) > 1
                THEN 503 ELSE 200,
     body |-> doc]

\* jsonify(...) answers 200 with the JSON document as body
jsonify(doc) == [status |-> 200, body |-> doc]

\* variant: another status text
health_check_degraded ==
    [status |-> 200,
     body |-> [status |-> "degraded",
               service |-> "voice_transcription",
               version |-> "1.0.0"]]

\* lines 17-22
health_check ==
    jsonify([status |-> "healthy",
             service |-> "voice_transcription",
             version |-> "1.0.0"])

\* variant: the root route lists itself too
root_lists_itself ==
    [status |-> 200,
     body |-> [message |-> "Voice Transcription Service",
               status |-> "running",
               endpoints |-> <<"/health", "/">>]]

\* lines 25-30
root ==
    jsonify([message |-> "Voice Transcription Service",
             status |-> "running",
             endpoints |-> <<"/health">>])

\* the rules the two @app.route decorators register (lines 16 and 24)
url_map ==
    { [rule |-> "/health", methods |-> {"GET"}, endpoint |-> "health_check"],
      [rule |-> "/",       methods |-> {"GET"}, endpoint |-> "root"] }

\* variant: views report on the requests answered so far
view_function_counting(endpoint) ==
    LET answered == \E r \in Runs : log[r] # <<>>
        view == IF endpoint = "health_check" THEN health_check ELSE root
    IN  [status |-> view.status,
         body |-> IF answered THEN [view.body EXCEPT !.status = "busy"]
                  ELSE view.body]

\* the function each endpoint name is bound to
view_function(endpoint) ==
    CASE endpoint = "health_check" -> health_check
      [] endpoint = "root"         -> root

NotFound == [status |-> 404, body |-> [error |-> "Not Found"]]

MethodNotAllowed == [status |-> 405, body |-> [error |-> "Method Not Allowed"]]

\* Flask routing: no rule for the path is 404, a rule that does not list the
\* method is 405, otherwise the rule's view function answers
dispatch_request(method, path) ==
    LET matching == {u \in url_map : u.rule = path}
        allowed  == {u \in matching : method \in u.methods}
    IN  IF matching = {} THEN NotFound
        ELSE IF allowed = {} THEN MethodNotAllowed
        ELSE view_function((CHOOSE u \in allowed : TRUE).endpoint)

Received(r) == Len(log[r]) + Cardinality(inflight[r])

\* a client's request reaches the listener and becomes in flight
Receive(r, m, p) ==
    /\ pc[r] = "serving"
    /\ Received(r) < MaxRequests
    /\ inflight' = [inflight EXCEPT
                      ![r] = @ \cup {[id |-> Received(r) + 1,
                                      method |-> m, path |-> p]}]
    /\ UNCHANGED <<environ, dotenv, os_environ, pc, port, listener, log, test>>

\* one in-flight request is dispatched and its response sent
Handle(r, q) ==
    /\ pc[r] = "serving"
    /\ q \in inflight[r]
    /\ LET resp == dispatch_request(q.method, q.path)
       IN  log' = [log EXCEPT
                     ![r] = Append(@, [id |-> q.id, method |-> q.method,
                                       path |-> q.path,
                                       status |-> resp.status,
                                       body |-> resp.body])]
    /\ inflight' = [inflight EXCEPT ![r] = @ \ {q}]
    /\ UNCHANGED <<environ, dotenv, os_environ, pc, port, listener, test>>

(* --------------------- pre_diagnosis_summary tests --------------------- *)

\* names bound by pre_diagnosis_summary_service.py: the file is comments only
ModuleNamespace == {}

\* from <module> import <name>
ImportFrom(namespace, name) ==
    IF name \in namespace THEN "imported" ELSE "ImportError"

TestNames ==
    {"test_process_questionnaire_data", "test_extract_key_medical_history",
     "test_generate_summary"}

Dicts(keys, vals) == UNION {[ks -> vals] : ks \in SUBSET keys}

\* questionnaires, those of test lines 9 and 27 among them
QuestionnaireInputs ==
    Dicts({"symptom", "duration"}, {"fever", "cough", "3 days", "5 days"})

Restrict(f, ks) == [k \in ks |-> f[k]]

\* health records, the one of test lines 14-18 among them
RecordInputs ==
    { Restrict(f, ks) :
        f \in [medicalHistory : {[diabetes |-> TRUE], [diabetes |-> FALSE],
                                 [asthma |-> TRUE]},
               allergies : {<<>>, <<"penicillin">>, <<"penicillin", "latex">>},
               medications : {<<>>, <<"metformin">>,
                              <<"metformin", "insulin">>}],
        ks \in SUBSET {"medicalHistory", "allergies", "medications"} }

PatientIds == {"patient123"}

\* the arguments of generate_summary (test lines 26-31)
SummaryInputs ==
    [patient_id : PatientIds, questionnaire_data : QuestionnaireInputs]

TestInputs(t) ==
    CASE t = "test_process_questionnaire_data" -> QuestionnaireInputs
      [] t = "test_extract_key_medical_history" -> RecordInputs
      [] t = "test_generate_summary" -> SummaryInputs

EmptyDict == [k \in {} |-> ""]

TestIdle ==
    [pc |-> "idle", import |-> "none", name |-> "none", input |-> EmptyDict,
     outcome |-> [kind |-> "none", value |-> EmptyDict]]

\* test module line 2: the import statement runs when the module is loaded
LoadTestModule ==
    /\ test.pc = "idle"
    /\ test' = [test EXCEPT
                  !.pc = "loaded",
                  !.import = ImportFrom(ModuleNamespace,
                                        "PreDiagnosisSummaryService")]
    /\ UNCHANGED srvVars

\* a test of a module whose import raised is reported as an error: setUp and
\* the test body (the call of the service method on input d) never run
RunTest(t, d) ==
    /\ test.pc = "loaded"
    /\ test.import = "ImportError"
    /\ d \in TestInputs(t)
    /\ test' = [test EXCEPT
                  !.pc = "done", !.name = t, !.input = d,
                  !.outcome = [kind |-> "ImportError", value |-> EmptyDict]]
    /\ UNCHANGED srvVars

(* --------------------------- specifications ---------------------------- *)

\* one process: run 1 is started with any environment, run 2 is never started
Init ==
    /\ environ \in [Runs -> EnvValues]
    /\ environ[2] = Unset
    /\ dotenv \in [Runs -> DotenvValues]
    /\ dotenv[2] = Unset
    /\ os_environ = environ
    /\ pc = [r \in Runs |-> "start"]
    /\ port = [r \in Runs |-> NoPort]
    /\ listener = [r \in Runs |-> NoListener]
    /\ inflight = [r \in Runs |-> {}]
    /\ log = [r \in Runs |-> <<>>]
    /\ test = TestIdle

Step(r) ==
    \/ LoadDotenv(r)
    \/ ResolvePort(r)
    \/ AppRun(r)
    \/ \E q \in Requests : Receive(r, q.method, q.path)
    \/ \E q \in inflight[r] : Handle(r, q)

Next == Step(1)

Spec == Init /\ [][Next]_vars

\* two independent processes, for statements that compare runs
TwoRunEnv == {Unset, SetTo(<<56, 48, 56, 48>>)}

InitTwoRuns ==
    /\ environ \in [Runs -> TwoRunEnv]
    /\ environ[1] = Unset
    /\ dotenv = [r \in Runs |-> Unset]
    /\ os_environ = environ
    /\ pc = [r \in Runs |-> "start"]
    /\ port = [r \in Runs |-> NoPort]
    /\ listener = [r \in Runs |-> NoListener]
    /\ inflight = [r \in Runs |-> {}]
    /\ log = [r \in Runs |-> <<>>]
    /\ test = TestIdle

NextTwoRuns == \E r \in Runs : Step(r)

SpecTwoRuns == InitTwoRuns /\ [][NextTwoRuns]_vars

\* the unit tests of the legacy module, run against the module as it is
InitTests ==
    /\ environ = [r \in Runs |-> Unset]
    /\ dotenv = [r \in Runs |-> Unset]
    /\ os_environ = environ
    /\ pc = [r \in Runs |-> "start"]
    /\ port = [r \in Runs |-> NoPort]
    /\ listener = [r \in Runs |-> NoListener]
    /\ inflight = [r \in Runs |-> {}]
    /\ log = [r \in Runs |-> <<>>]
    /\ test = TestIdle

NextTests ==
    \/ LoadTestModule
    \/ \E t \in TestNames : \E d \in TestInputs(t) : RunTest(t, d)

SpecTests == InitTests /\ [][NextTests]_vars

(* ------------------------------- claims -------------------------------- *)

Entries(r) == {log[r][i] : i \in 1..Len(log[r])}

IsRequest(e, m, p) == e.method = m /\ e.path = p

SameRequest(a, b) == a.method = b.method /\ a.path = b.path

SameResponse(a, b) == a.status = b.status /\ a.body = b.body

\* C1: every response to GET /health, whatever was requested before it, is
\* HTTP 200 with the body {status: healthy, service: voice_transcription,
\* version: 1.0.0}
HealthAlwaysHealthy ==
    \A r \in Runs : \A e \in Entries(r) :
        IsRequest(e, "GET", "/health") =>
            /\ e.status = 200
            /\ e.body = [status |-> "healthy",
                         service |-> "voice_transcription",
                         version |-> "1.0.0"]

\* a GET /health answered after an earlier request of another kind
HealthAnsweredAfterHistory ==
    /\ Len(log[1]) = 2
    /\ ~IsRequest(log[1][1], "GET", "/health")
    /\ IsRequest(log[1][2], "GET", "/health")
    /\ log[1][2].status = 200

\* C2: every response to GET / is HTTP 200 with the body {message: Voice
\* Transcription Service, status: running, endpoints: [/health]}, the
\* endpoints list holding exactly the one element /health
RootAlwaysDescribes ==
    \A r \in Runs : \A e \in Entries(r) :
        IsRequest(e, "GET", "/") =>
            /\ e.status = 200
            /\ DOMAIN e.body = {"message", "status", "endpoints"}
            /\ e.body.message = "Voice Transcription Service"
            /\ e.body.status = "running"
            /\ Len(e.body.endpoints) = 1
            /\ e.body.endpoints[1] = "/health"

\* a GET / answered after an earlier request of another kind
RootAnsweredAfterHistory ==
    /\ Len(log[1]) = 2
    /\ ~IsRequest(log[1][1], "GET", "/")
    /\ IsRequest(log[1][2], "GET", "/")
    /\ log[1][2].status = 200

\* C3: in two runs with arbitrary, possibly different request histories the
\* same request gets the same status code and body: the response depends on
\* the method and path only
ResponsesAgreeAcrossRuns ==
    \A a \in Entries(1) : \A b \in Entries(2) :
        SameRequest(a, b) => SameResponse(a, b)

\* the two runs listen on different ports and answered the same route request
\* after different histories
SameRequestDifferentHistories ==
    /\ listener[1].bound /\ listener[2].bound
    /\ listener[1].ports # listener[2].ports
    /\ Len(log[1]) = 2 /\ Len(log[2]) = 1
    /\ ~SameRequest(log[1][1], log[1][2])
    /\ SameRequest(log[1][2], log[2][1])
    /\ log[2][1].status = 200

\* C4 as stated: a process started with PORT unset in its environment
\* listens on 0.0.0.0:9001 and on nothing else
UnsetPortBinds9001 ==
    \A r \in Runs :
        (~environ[r].set /\ listener[r].bound) =>
            listener[r] = Bound(Host, {9001})

\* C4 amended: a process started with PORT unset in its environment and not
\* bound by the .env file resolves the port to 9001 and listens on
\* 0.0.0.0:9001 and on nothing else
UnsetEverywhereBinds9001 ==
    \A r \in Runs :
        (~environ[r].set /\ ~dotenv[r].set) =>
            /\ pc[r] \in {"resolved", "serving"} => port[r] = IntOk(9001)
            /\ pc[r] = "serving" => listener[r] = Bound(Host, {9001})
            /\ listener[r].bound => listener[r] = Bound(Host, {9001})

\* started with PORT unset everywhere and serving
ServingOnDefaultPort ==
    /\ ~environ[1].set /\ ~dotenv[1].set
    /\ pc[1] = "serving"
    /\ listener[1].bound
    /\ Len(log[1]) > 0

\* a text of the digits 0..9 only, of a length int() converts
PlainDecimal(t) ==
    /\ t # <<>>
    /\ Len(t) <= 4300
    /\ \A i \in 1..Len(t) : t[i] \in 48..57

RECURSIVE Pow10(_)
Pow10(n) == IF n = 0 THEN 1 ELSE 10 * Pow10(n - 1)

RECURSIVE PositionalSum(_, _)
PositionalSum(t, i) ==
    IF i > Len(t) THEN 0
    ELSE (t[i] - 48) * Pow10(Len(t) - i) + PositionalSum(t, i + 1)

DecimalValue(t) == PositionalSum(t, 1)

\* C5: a process started with PORT set to the decimal text of a port number
\* p in 1..65535 resolves the port to p and listens on exactly 0.0.0.0:p,
\* whatever the .env file says; a port other than the one PORT spells, such
\* as the default, is never used while PORT is set
SetPortBindsThatPort ==
    \A r \in Runs :
        (/\ environ[r].set
         /\ PlainDecimal(environ[r].text)
         /\ DecimalValue(environ[r].text) \in 1..65535) =>
            LET p == DecimalValue(environ[r].text)
            IN  /\ pc[r] \in {"resolved", "serving"} => port[r] = IntOk(p)
                /\ pc[r] = "serving" => listener[r] = Bound(Host, {p})
                /\ listener[r].bound => listener[r] = Bound(Host, {p})

\* started with PORT=8080 while the .env file binds PORT too, and serving
ServingOn8080 ==
    /\ environ[1] = SetTo(<<56, 48, 56, 48>>)
    /\ dotenv[1].set
    /\ pc[1] = "serving"
    /\ listener[1] = Bound(Host, {8080})

\* a code point within one of the ten-digit runs
DecimalDigit(c) == \E z \in DigitZeros : z <= c /\ c <= z + 9

\* what int() converts: white space, an optional sign, digit groups joined
\* by single underscores, white space, with at most 4300 digits in all
IsIntLiteral(t) ==
    \E a \in 0..Len(t) : \E b \in a..Len(t) :
        /\ \A i \in 1..a : t[i] \in Whitespace
        /\ \A i \in (b + 1)..Len(t) : t[i] \in Whitespace
        /\ a < b /\ t[a + 1] \notin Whitespace /\ t[b] \notin Whitespace
        /\ LET m == SubSeq(t, a + 1, b)
               c == IF m[1] \in {Plus, Minus} THEN Tail(m) ELSE m
           IN  /\ c # <<>>
               /\ \A i \in 1..Len(c) :
                    \/ DecimalDigit(c[i])
                    \/ /\ c[i] = Underscore
                       /\ 1 < i /\ i < Len(c)
                       /\ DecimalDigit(c[i - 1]) /\ DecimalDigit(c[i + 1])
               /\ Cardinality({i \in 1..Len(c) : DecimalDigit(c[i])}) <= 4300

\* C6: handling an in-flight request changes nothing of the server but the
\* request's own departure and its response, whatever else is in flight, and
\* the response equals every response already given to the same request
\* under other interleavings
HandlingIsIsolated ==
    [][\A r \in Runs :
         log'[r] # log[r] =>
            /\ UNCHANGED <<environ, dotenv, os_environ, pc, port, listener>>
            /\ Len(log'[r]) = Len(log[r]) + 1
            /\ SubSeq(log'[r], 1, Len(log[r])) = log[r]
            /\ LET e == log'[r][Len(log'[r])]
               IN  /\ \E q \in inflight[r] :
                        /\ q = [id |-> e.id, method |-> e.method,
                                path |-> e.path]
                        /\ inflight'[r] = inflight[r] \ {q}
                   /\ \A d \in Entries(r) :
                        SameRequest(d, e) => SameResponse(d, e)
      ]_vars

\* two requests for the same route were in flight together and the later
\* one was answered first
OvertakenSameRoute ==
    /\ Len(log[1]) = 2
    /\ log[1][1].id = 2 /\ log[1][2].id = 1
    /\ SameRequest(log[1][1], log[1][2])
    /\ log[1][1].status = 200

\* C7: the test's call of process_questionnaire_data returns a value equal
\* to the questionnaire it was given
ProcessReturnsQuestionnaire ==
    (test.pc = "done" /\ test.name = "test_process_questionnaire_data") =>
        /\ test.outcome.kind = "return"
        /\ test.outcome.value = test.input

\* C8: the test's call of extract_key_medical_history on records carrying
\* medicalHistory, allergies and medications returns a mapping with the keys
\* medical_history, allergies and medications
ExtractReturnsThreeKeys ==
    (/\ test.pc = "done"
     /\ test.name = "test_extract_key_medical_history"
     /\ {"medicalHistory", "allergies", "medications"}
            \subseteq DOMAIN test.input) =>
        /\ test.outcome.kind = "return"
        /\ {"medical_history", "allergies", "medications"}
               \subseteq DOMAIN test.outcome.value

\* C9: a process whose PORT is set to text that is not an integer literal
\* (the empty text included) never resolves a port and never binds a
\* listener, on 9001 or elsewhere: once past line 33 it is in the error
\* state; and a process is past line 33 without error only with an integer
\* port
NonIntegerPortNeverServes ==
    \A r \in Runs :
        /\ (environ[r].set /\ ~IsIntLiteral(environ[r].text)) =>
              /\ port[r] = NoPort
              /\ listener[r] = NoListener
              /\ pc[r] \in {"start", "loaded", "error"}
        /\ pc[r] \in {"resolved", "serving"} =>
              /\ port[r].ok
              /\ os_environ[r].set => IsIntLiteral(os_environ[r].text)
        /\ listener[r].bound => pc[r] = "serving"

\* started with PORT set to the empty text and stopped at line 33
EmptyPortEndsInError ==
    /\ environ[1] = SetTo(<<>>)
    /\ pc[1] = "error"
    /\ listener[1] = NoListener
    /\ port[1] = NoPort

====
